---- MODULE Spec2Model ----
(***************************************************************************)
(* Model of gr::digital::constellation and its variants (calcdist, rect,   *)
(* expl_rect, psk, bpsk, qpsk, dqpsk, 8psk).                               *)
(*                                                                         *)
(* Numbers.  A float of one constellation object is held as an integer     *)
(* number of 1/unit steps, where `unit' is fixed when the object is built: *)
(* the real value v is the integer v * unit.  The base constructor divides *)
(* by the summed magnitude of the points, so it takes unit = Res *         *)
(* summed_mag, which makes every scaled point, sector width and sector     *)
(* centre of the enumerated inputs an exact integer.  cos and sin are a    *)
(* table with two decimals.  Input points have integer magnitudes, so that *)
(* sqrt is exact too.  Point lists are non-empty and hold no point 0+0i    *)
(* (an object built from no points, or from points that sum to magnitude   *)
(* 0, holds NaN and has no defined decision at all).                       *)
(***************************************************************************)
EXTENDS Integers, Sequences, FiniteSets, TLC

VARIABLES
    pc,                      \* "new", "ready" (constructed, idle), "returned" (a call
                             \* has returned and the caller holds its result), "failed"
                             \* (the constructor threw), "crashed" (a read faulted)
    variant,                 \* the dynamic type of the object
    args,                    \* the arguments the constructor was called with
    unit,                    \* the integer that stands for 1.0 in this object
    d_constellation,
    d_pre_diff_code,
    d_apply_pre_diff_code,
    d_rotational_symmetry,
    d_dimensionality,
    d_arity,
    d_scalefactor,
    n_sectors,
    n_real_sectors,
    n_imag_sectors,
    d_width_real_sectors,
    d_width_imag_sectors,
    sector_values,
    d_sector_values,
    d_re_min,                \* the bounding box of the points, set by max_min_axes
    d_re_max,
    d_im_min,
    d_im_max,
    d_lut_precision,
    d_lut_scale,             \* 2^precision as the fraction <<numerator, denominator>>
    d_soft_dec_lut,
    gen,                     \* the locals of a running gen_soft_dec_lut
    last                     \* the last call made on the object and what it returned

vars == <<pc, variant, args, unit, d_constellation, d_pre_diff_code,
          d_apply_pre_diff_code, d_rotational_symmetry, d_dimensionality,
          d_arity, d_scalefactor, n_sectors, n_real_sectors, n_imag_sectors,
          d_width_real_sectors, d_width_imag_sectors, sector_values,
          d_sector_values, d_re_min, d_re_max, d_im_min, d_im_max,
          d_lut_precision, d_lut_scale, d_soft_dec_lut, gen, last>>

(***************************************************************************)
(* Bounds of the enumerated inputs.                                        *)
(***************************************************************************)
MaxLen == 2         \* point lists of every length 1..MaxLen over Pool
MaxDim == 2         \* dimensionality 1..MaxDim
MaxSectors == 2     \* real_sectors, imag_sectors in 1..MaxSectors
Mantissa == 16      \* a float sum a + b is a once |a| >= Mantissa * |b|
TableCap == 16      \* entries of a soft decision table that are kept

(***************************************************************************)
(* Fixed point and trigonometry.                                           *)
(***************************************************************************)
Res == 100          \* steps per 1.0 of an object built without scaling
HalfTurn == 24      \* angle steps per pi (one step is 7.5 degrees)
M_TWOPI == 2 * HalfTurn
SQRT_TWO == 71      \* 0.707107, in 1/Res
Huge == 10^9        \* 1e20 and +infinity: above every coordinate of the model
NaN == 2 * Huge     \* 0/0; like +infinity it is not less than any coordinate

CosQ == <<100, 99, 97, 92, 87, 79, 71, 61, 50, 38, 26, 13, 0>>

\* cos and sin of k angle steps, in 1/Res.
cos(k) ==
    LET m == k % M_TWOPI
    IN  IF m <= 12 THEN CosQ[m + 1]
        ELSE IF m <= 24 THEN -CosQ[24 - m + 1]
        ELSE IF m <= 36 THEN -CosQ[m - 24 + 1]
        ELSE CosQ[48 - m + 1]

sin(k) == cos(k - 12)

\* gr_complex(cos(phase), sin(phase)) in an object whose 1.0 is u.
UnitCircle(k, u) == <<cos(k) * (u \div Res), sin(k) * (u \div Res)>>

\* The descent of Newton's iteration to the integer square root of n.
RECURSIVE SqrtFrom(_, _)
SqrtFrom(n, x) ==
    LET y == (x + n \div x) \div 2
    IN  IF y >= x THEN x ELSE SqrtFrom(n, y)

\* sqrt, exact on the magnitudes of the enumerated points: the largest m with
\* m * m <= n.
sqrt(n) == IF n = 0 THEN 0 ELSE SqrtFrom(n, n)

\* int(x) of the quotient num/den (den > 0): truncation toward zero.
Trunc(num, den) == IF num >= 0 THEN num \div den ELSE -((-num) \div den)

\* floor of the quotient num/den (den > 0).
Floor(num, den) == num \div den

\* norm(a - b) of two complex numbers: the squared magnitude.
norm(a, b) == (a[1] - b[1]) * (a[1] - b[1]) + (a[2] - b[2]) * (a[2] - b[2])

\* static_cast<int>(log(M)/log(2.0))
Log2(M) == CHOOSE k \in 0..M : 2^k <= M /\ M < 2^(k + 1)

\* (v & (1 << j)) >> j for v >= 0
Bit(v, j) == (v \div (2^j)) % 2

(***************************************************************************)
(* constellation: the base class.                                          *)
(***************************************************************************)
RECURSIVE SummedMag(_)
SummedMag(constell) ==
    IF constell = <<>> THEN 0
    ELSE sqrt(Head(constell)[1] * Head(constell)[1]
              + Head(constell)[2] * Head(constell)[2])
         + SummedMag(Tail(constell))

\* A calc_arity without its check.
calc_arity_never_throws(constellation_size, dimensionality) == FALSE

\* calc_arity: throws unless the size is a multiple of the dimensionality.
calc_arity_throws(constellation_size, dimensionality) ==
    constellation_size % dimensionality # 0

calc_arity(constellation_size, dimensionality) ==
    constellation_size \div dimensionality

\* The fields an object holds once the base constructor has run; thrown says
\* that the constructor raised std::runtime_error instead.
Object(u, cst, code, apply, rot, dim, sf) ==
    [thrown |-> calc_arity_throws(Len(cst), dim),
     unit |-> u,
     d_constellation |-> cst,
     d_pre_diff_code |-> code,
     d_apply_pre_diff_code |-> apply,
     d_rotational_symmetry |-> rot,
     d_dimensionality |-> dim,
     d_arity |-> calc_arity(Len(cst), dim),
     d_scalefactor |-> sf,
     n_sectors |-> 0,
     n_real_sectors |-> 0,
     n_imag_sectors |-> 0,
     d_width_real_sectors |-> 0,
     d_width_imag_sectors |-> 0,
     sector_values |-> <<>>,
     d_sector_values |-> <<>>]

Thrown == [Object(Res, <<>>, <<>>, FALSE, 0, 1, Res) EXCEPT !.thrown = TRUE]

\* constellation::constellation(constell, pre_diff_code, rotational_symmetry,
\* dimensionality).  d_scalefactor = constsize/summed_mag is constsize * Res
\* steps of 1/(Res * summed_mag), and a point times it is the input point
\* (a whole number) times that many steps.
constellation(constell, pre_diff_code, rotational_symmetry, dimensionality) ==
    LET constsize == Len(constell)
        summed_mag == SummedMag(constell)
        scalefactor == constsize * Res
        scaled == [i \in 1..constsize |->
                     <<constell[i][1] * scalefactor, constell[i][2] * scalefactor>>]
    IN  IF Len(pre_diff_code) = 0
        THEN Object(Res * summed_mag, scaled, pre_diff_code, FALSE,
                    rotational_symmetry, dimensionality, scalefactor)
        ELSE IF Len(pre_diff_code) # constsize
        THEN Thrown
        ELSE Object(Res * summed_mag, scaled, pre_diff_code, TRUE,
                    rotational_symmetry, dimensionality, scalefactor)

\* constellation::constellation(): no points yet, d_scalefactor 1.0.
constellation_default ==
    Object(Res, <<>>, <<>>, FALSE, 0, 1, Res)

\* map_to_points(value, points): the D stored points of a symbol.
map_to_points(cst, D, value) ==
    [i \in 1..D |-> cst[value * D + (i - 1) + 1]]

RECURSIVE DistanceFrom(_, _, _, _, _)
DistanceFrom(cst, D, index, sample, i) ==
    IF i >= D THEN 0
    ELSE norm(sample[i + 1], cst[index * D + i + 1])
         + DistanceFrom(cst, D, index, sample, i + 1)

\* A get_distance that strides by 1 instead of by the dimensionality.
RECURSIVE DistanceFromUnstrided(_, _, _, _, _)
DistanceFromUnstrided(cst, D, index, sample, i) ==
    IF i >= D THEN 0
    ELSE norm(sample[i + 1], cst[index + i + 1])
         + DistanceFromUnstrided(cst, D, index, sample, i + 1)

get_distance_unstrided(cst, D, index, sample) ==
    DistanceFromUnstrided(cst, D, index, sample, 0)

\* get_distance(index, sample)
get_distance(cst, D, index, sample) ==
    DistanceFrom(cst, D, index, sample, 0)

\* The loop of get_closest_point from index j on.
RECURSIVE ClosestFrom(_, _, _, _, _, _, _)
ClosestFrom(cst, D, arity, sample, j, min_index, min_euclid_dist) ==
    IF j >= arity THEN min_index
    ELSE LET euclid_dist == get_distance(cst, D, j, sample)
         IN  IF euclid_dist < min_euclid_dist
             THEN ClosestFrom(cst, D, arity, sample, j + 1, j, euclid_dist)
             ELSE ClosestFrom(cst, D, arity, sample, j + 1, min_index, min_euclid_dist)

\* The loop with <= for <: a later point at the same distance wins.
RECURSIVE ClosestFromLast(_, _, _, _, _, _, _)
ClosestFromLast(cst, D, arity, sample, j, min_index, min_euclid_dist) ==
    IF j >= arity THEN min_index
    ELSE LET euclid_dist == get_distance(cst, D, j, sample)
         IN  IF euclid_dist <= min_euclid_dist
             THEN ClosestFromLast(cst, D, arity, sample, j + 1, j, euclid_dist)
             ELSE ClosestFromLast(cst, D, arity, sample, j + 1, min_index, min_euclid_dist)

get_closest_point_last(cst, D, arity, sample) ==
    ClosestFromLast(cst, D, arity, sample, 1, 0, get_distance(cst, D, 0, sample))

\* get_closest_point(sample)
get_closest_point(cst, D, arity, sample) ==
    ClosestFrom(cst, D, arity, sample, 1, 0, get_distance(cst, D, 0, sample))

(***************************************************************************)
(* constellation_sector, constellation_rect, constellation_expl_rect.      *)
(***************************************************************************)
\* constellation_sector::constellation_sector
constellation_sector(constell, pre_diff_code, rotational_symmetry, dimensionality, sectors) ==
    LET base == constellation(constell, pre_diff_code, rotational_symmetry,
                              dimensionality)
    IN  IF base.thrown THEN Thrown ELSE [base EXCEPT !.n_sectors = sectors]

\* One axis of constellation_rect::get_sector with the upper clamp left out.
rect_axis_sector_unclamped(x, sectors, width) ==
    LET s == Trunc(2 * x + sectors * width, 2 * width)
    IN  IF s < 0 THEN 0 ELSE s

\* One axis of constellation_rect::get_sector: int(x/width + sectors/2.0),
\* then the two clamps.  Both axes run the same code.
rect_axis_sector(x, sectors, width) ==
    LET s == Trunc(2 * x + sectors * width, 2 * width)
    IN  IF s < 0 THEN 0
        ELSE IF s >= sectors THEN sectors - 1
        ELSE s

\* constellation_rect::get_sector with the stride of the wrong axis.
constellation_rect_get_sector_stride(sample, real_sectors, imag_sectors, width_real, width_imag) ==
    rect_axis_sector(sample[1], real_sectors, width_real) * real_sectors
    + rect_axis_sector(sample[2], imag_sectors, width_imag)

\* constellation_rect::get_sector
constellation_rect_get_sector(sample, real_sectors, imag_sectors, width_real, width_imag) ==
    rect_axis_sector(sample[1], real_sectors, width_real) * imag_sectors
    + rect_axis_sector(sample[2], imag_sectors, width_imag)

\* constellation_rect::calc_sector_center
calc_sector_center(sector, real_sectors, imag_sectors, width_real, width_imag) ==
    LET real_sector == sector \div imag_sectors
        imag_sector == sector - real_sector * imag_sectors
    IN  <<((2 * real_sector + 1 - real_sectors) * width_real) \div 2,
          ((2 * imag_sector + 1 - imag_sectors) * width_imag) \div 2>>

\* constellation_rect::calc_sector_value
constellation_rect_calc_sector_value(o, sector) ==
    get_closest_point(o.d_constellation, o.d_dimensionality, o.d_arity,
        <<calc_sector_center(sector, o.n_real_sectors, o.n_imag_sectors,
                             o.d_width_real_sectors, o.d_width_imag_sectors)>>)

\* constellation_rect::constellation_rect.  find_sector_values() runs in this
\* constructor, so the calc_sector_value it calls is constellation_rect's.
constellation_rect(constell, pre_diff_code, rotational_symmetry, real_sectors, imag_sectors, width_real_sectors, width_imag_sectors) ==
    LET base == constellation_sector(constell, pre_diff_code, rotational_symmetry,
                                     1, real_sectors * imag_sectors)
        o == [base EXCEPT
                !.n_real_sectors = real_sectors,
                !.n_imag_sectors = imag_sectors,
                !.d_width_real_sectors = width_real_sectors * base.d_scalefactor,
                !.d_width_imag_sectors = width_imag_sectors * base.d_scalefactor]
    IN  IF base.thrown THEN Thrown
        ELSE [o EXCEPT !.sector_values =
                 [s \in 1..o.n_sectors |->
                    constellation_rect_calc_sector_value(o, s - 1)]]

\* constellation_expl_rect::constellation_expl_rect: the base constructor, then
\* the member d_sector_values is set from the argument.
constellation_expl_rect(constell, pre_diff_code, rotational_symmetry, real_sectors, imag_sectors, width_real_sectors, width_imag_sectors, values) ==
    LET base == constellation_rect(constell, pre_diff_code, rotational_symmetry,
                                   real_sectors, imag_sectors,
                                   width_real_sectors, width_imag_sectors)
    IN  IF base.thrown THEN Thrown ELSE [base EXCEPT !.d_sector_values = values]

(***************************************************************************)
(* constellation_psk.                                                      *)
(***************************************************************************)
\* arg(*sample) of a sample on the unit circle.  A sample on the negative
\* real axis has the phase -pi when its imaginary part is -0.0.
arg(sample, negzero, u) ==
    LET k == CHOOSE a \in (1 - HalfTurn)..HalfTurn : UnitCircle(a, u) = sample
    IN  IF k = HalfTurn /\ negzero THEN -HalfTurn ELSE k

\* constellation_psk::get_sector from the phase: floor(phase/width + 0.5)
\* with width = M_TWOPI/n_sectors, and n_sectors added to a negative result.
constellation_psk_get_sector(phase, sectors) ==
    LET sector == Floor(2 * phase * sectors + M_TWOPI, 2 * M_TWOPI)
    IN  IF sector < 0 THEN sector + sectors ELSE sector

\* constellation_psk::calc_sector_value
constellation_psk_calc_sector_value(o, sector) ==
    LET phase == (sector * M_TWOPI) \div o.n_sectors
    IN  get_closest_point(o.d_constellation, o.d_dimensionality, o.d_arity,
                          <<UnitCircle(phase, o.unit)>>)

\* constellation_psk::constellation_psk
constellation_psk(constell, pre_diff_code, sectors) ==
    LET o == constellation_sector(constell, pre_diff_code, Len(constell),
                                  1, sectors)
    IN  IF o.thrown THEN Thrown
        ELSE [o EXCEPT !.sector_values =
                 [s \in 1..o.n_sectors |->
                    constellation_psk_calc_sector_value(o, s - 1)]]

(***************************************************************************)
(* constellation_bpsk, _qpsk, _dqpsk, _8psk: built by the default          *)
(* constructor, so nothing is scaled and 1.0 is Res.                       *)
(***************************************************************************)
constellation_bpsk ==
    LET cst == << <<-Res, 0>>, <<Res, 0>> >>
    IN  [constellation_default EXCEPT
            !.d_constellation = cst,
            !.d_rotational_symmetry = 2,
            !.d_dimensionality = 1,
            !.thrown = calc_arity_throws(Len(cst), 1),
            !.d_arity = calc_arity(Len(cst), 1)]

\* A decision on the imaginary part.
constellation_bpsk_decision_maker_imag(sample) ==
    IF sample[2] > 0 THEN 1 ELSE 0

constellation_bpsk_decision_maker(sample) ==
    IF sample[1] > 0 THEN 1 ELSE 0

constellation_qpsk ==
    LET cst == << <<-SQRT_TWO, -SQRT_TWO>>, <<SQRT_TWO, -SQRT_TWO>>,
                  <<-SQRT_TWO, SQRT_TWO>>, <<SQRT_TWO, SQRT_TWO>> >>
    IN  [constellation_default EXCEPT
            !.d_constellation = cst,
            !.d_pre_diff_code = <<0, 2, 3, 1>>,
            !.d_rotational_symmetry = 4,
            !.d_dimensionality = 1,
            !.thrown = calc_arity_throws(Len(cst), 1),
            !.d_arity = calc_arity(Len(cst), 1)]

constellation_qpsk_decision_maker(sample) ==
    2 * (IF sample[2] > 0 THEN 1 ELSE 0) + (IF sample[1] > 0 THEN 1 ELSE 0)

constellation_dqpsk ==
    LET cst == << <<SQRT_TWO, SQRT_TWO>>, <<-SQRT_TWO, SQRT_TWO>>,
                  <<-SQRT_TWO, -SQRT_TWO>>, <<SQRT_TWO, -SQRT_TWO>> >>
    IN  [constellation_default EXCEPT
            !.d_constellation = cst,
            !.d_pre_diff_code = <<0, 1, 3, 2>>,
            !.d_apply_pre_diff_code = TRUE,
            !.d_rotational_symmetry = 4,
            !.d_dimensionality = 1,
            !.thrown = calc_arity_throws(Len(cst), 1),
            !.d_arity = calc_arity(Len(cst), 1)]

constellation_dqpsk_decision_maker(sample) ==
    LET a == sample[1] > 0
        b == sample[2] > 0
    IN  IF a THEN (IF b THEN 0 ELSE 3)
        ELSE (IF b THEN 1 ELSE 2)

constellation_8psk ==
    LET angle == HalfTurn \div 8
        cst == << UnitCircle(1 * angle, Res), UnitCircle(7 * angle, Res),
                  UnitCircle(15 * angle, Res), UnitCircle(9 * angle, Res),
                  UnitCircle(3 * angle, Res), UnitCircle(5 * angle, Res),
                  UnitCircle(13 * angle, Res), UnitCircle(11 * angle, Res) >>
    IN  [constellation_default EXCEPT
            !.d_constellation = cst,
            !.d_rotational_symmetry = 8,
            !.d_dimensionality = 1,
            !.thrown = calc_arity_throws(Len(cst), 1),
            !.d_arity = calc_arity(Len(cst), 1)]

fabsf(x) == IF x < 0 THEN -x ELSE x

\* constellation_8psk::decision_maker with the two sign bits exchanged.
constellation_8psk_decision_maker_swapped(sample) ==
    LET re == sample[1]
        im == sample[2]
    IN  (IF fabsf(re) <= fabsf(im) THEN 4 ELSE 0)
        + (IF re <= 0 THEN 2 ELSE 0)
        + (IF im <= 0 THEN 1 ELSE 0)

\* constellation_8psk::decision_maker: the three tests set three different
\* bits, so the ors add up.
constellation_8psk_decision_maker(sample) ==
    LET re == sample[1]
        im == sample[2]
    IN  (IF fabsf(re) <= fabsf(im) THEN 4 ELSE 0)
        + (IF re <= 0 THEN 1 ELSE 0)
        + (IF im <= 0 THEN 2 ELSE 0)

(***************************************************************************)
(* calc_soft_dec.  The model keeps, for each of the 2k sums tmp[2j+0] and  *)
(* tmp[2j+1], the set of symbols i whose term d was added to it; which sum *)
(* a term goes to depends neither on the sample nor on the noise power.    *)
(***************************************************************************)
\* What d_pre_diff_code[i] evaluates to: the element, or, for an index past
\* the end of the vector, the word stray[i] that the read happens to find.
PreDiffCodeAt(code, i, stray) ==
    IF i < Len(code) THEN code[i + 1] ELSE stray[i]

\* Whether calc_soft_dec reads d_pre_diff_code past its end.
calc_soft_dec_reads_past_end(cst, code) ==
    Log2(Len(cst)) > 0 /\ Len(code) < Len(cst)

\* The sums tmp[0..2k-1] after the loops over i and j.
calc_soft_dec(cst, code, stray) ==
    LET M == Len(cst)
        k == Log2(M)
    IN  [n \in 0..(2 * k - 1) |->
           {i \in 0..(M - 1) :
              Bit(PreDiffCodeAt(code, i, stray), n \div 2) = n % 2}]

(***************************************************************************)
(* The soft decision table.  The bounding box is held in the steps of the  *)
(* points; 2^precision and the ratios of the lookup are exact fractions; a *)
(* grid point of gen_soft_dec_lut is held in 1/GridDen of a step, which    *)
(* makes the grid step (max - min)/(2^precision - 1) exact for the         *)
(* precisions that are enumerated.  A table entry is <<origin, a, b>>:     *)
(* <<0, x, y>> is calc_soft_dec at the grid point (x, y), <<1, i, n>> is   *)
(* entry i of a table of n entries handed in by a caller.                  *)
(***************************************************************************)
GridDen == 3

\* The loop of max_min_axes from point i on.
RECURSIVE MaxMinFrom(_, _, _)
MaxMinFrom(cst, i, b) ==
    IF i > Len(cst) THEN b
    ELSE LET p == cst[i]
         IN  MaxMinFrom(cst, i + 1,
                 [re_max |-> IF p[1] > b.re_max THEN p[1] ELSE b.re_max,
                  im_max |-> IF p[2] > b.im_max THEN p[2] ELSE b.im_max,
                  re_min |-> IF p[1] < b.re_min THEN p[1] ELSE b.re_min,
                  im_min |-> IF p[2] < b.im_min THEN p[2] ELSE b.im_min])

\* max_min_axes(): the extremes of the points, then the four replacements of
\* an extreme that is 0, in the order of the code.
max_min_axes(cst) ==
    LET b == MaxMinFrom(cst, 1, [re_min |-> Huge, im_min |-> Huge,
                                 re_max |-> -Huge, im_max |-> -Huge])
        im_min == IF b.im_min = 0 THEN b.re_min ELSE b.im_min
        im_max == IF b.im_max = 0 THEN b.re_max ELSE b.im_max
        re_min == IF b.re_min = 0 THEN im_min ELSE b.re_min
        re_max == IF b.re_max = 0 THEN im_max ELSE b.re_max
    IN  [re_min |-> re_min, re_max |-> re_max, im_min |-> im_min, im_max |-> im_max]

\* powf(2.0, precision) as <<numerator, denominator>>.
powf2(precision) ==
    IF precision >= 0 THEN <<2^precision, 1>> ELSE <<1, 2^(-precision)>>

\* The float quotient num/den for num >= 0: +infinity or NaN when den is 0.
FDiv(num, den) ==
    IF den = 0 THEN (IF num = 0 THEN NaN ELSE Huge)
    ELSE IF den > 0 THEN num \div den
    ELSE -(num \div (-den))

\* The float sum a + b: infinity and NaN win, and a keeps its value when b is
\* too small against it to change it (a float holds Mantissa binary digits
\* worth of ratio, scaled down here).
FAdd(a, b) ==
    IF b >= Huge THEN b
    ELSE IF b # 0 /\ fabsf(a) >= Mantissa * fabsf(b) THEN a
    ELSE a + b

\* The step of gen_soft_dec_lut along an axis from min to max, in 1/GridDen:
\* (max - min) / (d_lut_scale - 1).
gen_soft_dec_lut_step(min, max, scale) ==
    FDiv(GridDen * (max - min) * scale[2], scale[1] - scale[2])

\* A clear() that leaves the vector as it is.
clear_keeps(table) == table

\* d_soft_dec_lut.clear()
clear(table) == <<>>

\* push_back on a table of which the model keeps the first TableCap entries.
push_back(table, entry) ==
    IF Len(table) < TableCap THEN Append(table, entry) ELSE table

RECURSIVE GCD(_, _)
GCD(a, b) == IF b = 0 THEN a ELSE GCD(b, a % b)

\* floorf((-min + std::min(max, std::max(min, v))) * scale_axis) with
\* step_axis = (max - min)/d_lut_scale and
\* scale_axis = d_lut_scale/(max - min) - step_axis, for max > min and 1.0 = u.
\* With r = (max - min)/u = wn/wd, s = d_lut_scale = sn/sd and
\* a = (clamped - min)/u = an/ad this is
\* floor(a * (s*s - r*r)/(s*r)).
soft_decision_maker_axis(v, min, max, scale, u) ==
    LET clamped == IF v < min THEN min ELSE IF v > max THEN max ELSE v
        gw == GCD(max - min, u)
        wn == (max - min) \div gw
        wd == u \div gw
        ga == GCD(clamped - min, u)
        an == (clamped - min) \div ga
        ad == u \div ga
        sn == scale[1]
        sd == scale[2]
    IN  Floor(an * (sn * sn * wd * wd - wn * wn * sd * sd),
              ad * sd * wd * sn * wn)

INT_MIN == -2147483647 - 1

\* What static_cast<int> of a NaN yields: the conversion is undefined; the
\* builds give INT_MIN or 0.
NaNToInt == {INT_MIN, 0}

\* soft_decision_maker with a table: the flat indexes the call may compute
\* (one, unless an axis of the box has no extent and the product is NaN).
soft_decision_maker_indexes(sample, b, scale, u) ==
    IF b.re_max = b.re_min \/ b.im_max = b.im_min
    THEN NaNToInt
    ELSE LET xre == soft_decision_maker_axis(sample[1], b.re_min, b.re_max, scale, u)
             xim == soft_decision_maker_axis(sample[2], b.im_min, b.im_max, scale, u)
         IN  {Trunc(scale[1] * xim + scale[2] * xre, scale[2])}

\* int max_index = d_lut_scale*d_lut_scale
soft_decision_maker_max_index(scale) ==
    Trunc(scale[1] * scale[1], scale[2] * scale[2])

\* The rest of soft_decision_maker: the element of d_soft_dec_lut that is
\* read for a flat index, or -1 when the range error is thrown instead.
soft_decision_maker_reads(index, scale) ==
    LET max_index == soft_decision_maker_max_index(scale)
    IN  IF index > max_index THEN max_index - 1
        ELSE IF index < 0 THEN -1
        ELSE index

\* A range check that also rejects the flat index 0.
soft_decision_maker_throws_at_zero(index, scale) ==
    ~(index > soft_decision_maker_max_index(scale)) /\ index <= 0

\* Whether soft_decision_maker throws the range error for a flat index.
soft_decision_maker_throws(index, scale) ==
    ~(index > soft_decision_maker_max_index(scale)) /\ index < 0

(***************************************************************************)
(* The inputs that are enumerated.                                         *)
(***************************************************************************)
Pool == {<<1, 0>>, <<-1, 0>>, <<0, 2>>, <<3, 4>>}
Pair2 == << <<-1, 0>>, <<1, 0>> >>
Odd3 == << <<1, 0>>, <<-1, 0>>, <<0, 2>> >>
Axis4 == << <<1, 0>>, <<0, 1>>, <<-1, 0>>, <<0, -1>> >>
Quad4 == << <<3, 4>>, <<-3, 4>>, <<-3, -4>>, <<3, -4>> >>
Mixed4 == << <<1, 0>>, <<-1, 0>>, <<1, 0>>, <<0, 2>> >>

\* Point lists for constellation_calcdist: every list of 1..MaxLen points of
\* Pool (so lists that repeat a point), and four longer ones.
PointLists ==
    UNION {[1..m -> Pool] : m \in 1..MaxLen} \cup {Odd3, Axis4, Quad4, Mixed4}

\* Point lists for the sector constellations.
SectorPointLists == {Pair2, Axis4, Quad4}

PreDiffCodes == {<<>>, <<0>>, <<1, 0>>, <<0, 1, 3, 2>>}
Widths == {1, 2}
SectorCounts == {1, 2, 3, 4, 6, 8}
HalfSteps == {-16, -3, -2, -1, 0, 1, 2, 3, 16}

\* Words that a read past the end of a vector may find.
StrayWords == {0, 255}

\* Sector tables a caller hands to constellation_expl_rect.
ExplTables(sectors, arity) ==
    {[s \in 1..sectors |-> v] : v \in 0..(arity - 1)}
    \cup {[s \in 1..sectors |-> (s - 1) % arity],
          [s \in 1..sectors |-> (sectors - s) % arity]}

NoArgs ==
    [constell |-> <<>>, pre_diff_code |-> <<>>, rotational_symmetry |-> 0,
     dimensionality |-> 0, real_sectors |-> 0, imag_sectors |-> 0,
     width_real_sectors |-> 0, width_imag_sectors |-> 0, n_sectors |-> 0,
     sector_values |-> <<>>]

\* The precisions gen_soft_dec_lut is called with.
GenPrecisions == {-1, 0, 1, 2}

\* The tables set_soft_dec_lut is called with: <<entries, precision>>.
SetTables == {<<1, 0>>, <<1, 1>>, <<4, 1>>, <<16, 2>>}

\* What a read past the end of d_soft_dec_lut may find.
StrayEntry == <<2, 0, 0>>

\* The metric types calc_metric is called with.
MetricTypes == {"TRELLIS_EUCLIDEAN", "TRELLIS_HARD_SYMBOL", "TRELLIS_HARD_BIT"}

NoCall ==
    [op |-> "none", sample |-> <<>>, negzero |-> FALSE, sector |-> -1,
     result |-> -1, oob |-> FALSE, tmp |-> <<>>, precision |-> 0,
     table |-> <<>>, path |-> "none", index |-> -1, read |-> -1,
     thrown |-> FALSE, entry |-> <<>>, refs |-> <<>>, type |-> "none",
     points |-> <<>>, metric |-> <<>>]

(***************************************************************************)
(* The state machine: one object, built once, then called.                 *)
(***************************************************************************)
fields == <<unit, d_constellation, d_pre_diff_code, d_apply_pre_diff_code,
            d_rotational_symmetry, d_dimensionality, d_arity, d_scalefactor,
            n_sectors, n_real_sectors, n_imag_sectors, d_width_real_sectors,
            d_width_imag_sectors, sector_values, d_sector_values>>

\* The bounding box and the soft decision table: what the constructors
\* initialise to 1e20, 0 and the empty vector.
box == <<d_re_min, d_re_max, d_im_min, d_im_max>>

lut == <<d_lut_precision, d_lut_scale, d_soft_dec_lut>>

NoGen == [precision |-> 0, at |-> "none", x |-> 0, y |-> 0, xstep |-> 0, ystep |-> 0]

Init ==
    /\ pc = "new"
    /\ variant = "none"
    /\ args = NoArgs
    /\ unit = Thrown.unit
    /\ d_constellation = Thrown.d_constellation
    /\ d_pre_diff_code = Thrown.d_pre_diff_code
    /\ d_apply_pre_diff_code = Thrown.d_apply_pre_diff_code
    /\ d_rotational_symmetry = Thrown.d_rotational_symmetry
    /\ d_dimensionality = Thrown.d_dimensionality
    /\ d_arity = Thrown.d_arity
    /\ d_scalefactor = Thrown.d_scalefactor
    /\ n_sectors = Thrown.n_sectors
    /\ n_real_sectors = Thrown.n_real_sectors
    /\ n_imag_sectors = Thrown.n_imag_sectors
    /\ d_width_real_sectors = Thrown.d_width_real_sectors
    /\ d_width_imag_sectors = Thrown.d_width_imag_sectors
    /\ sector_values = Thrown.sector_values
    /\ d_sector_values = Thrown.d_sector_values
    /\ d_re_min = Huge
    /\ d_re_max = Huge
    /\ d_im_min = Huge
    /\ d_im_max = Huge
    /\ d_lut_precision = 0
    /\ d_lut_scale = <<0, 1>>
    /\ d_soft_dec_lut = <<>>
    /\ gen = NoGen
    /\ last = NoCall

\* The outcome o of a constructor becomes the object, or the constructor threw
\* and there is no object.
Install(v, a, o) ==
    /\ variant' = v
    /\ args' = a
    /\ last' = NoCall
    /\ UNCHANGED <<box, lut, gen>>
    /\ IF o.thrown
       THEN pc' = "failed" /\ UNCHANGED fields
       ELSE /\ pc' = "ready"
            /\ unit' = o.unit
            /\ d_constellation' = o.d_constellation
            /\ d_pre_diff_code' = o.d_pre_diff_code
            /\ d_apply_pre_diff_code' = o.d_apply_pre_diff_code
            /\ d_rotational_symmetry' = o.d_rotational_symmetry
            /\ d_dimensionality' = o.d_dimensionality
            /\ d_arity' = o.d_arity
            /\ d_scalefactor' = o.d_scalefactor
            /\ n_sectors' = o.n_sectors
            /\ n_real_sectors' = o.n_real_sectors
            /\ n_imag_sectors' = o.n_imag_sectors
            /\ d_width_real_sectors' = o.d_width_real_sectors
            /\ d_width_imag_sectors' = o.d_width_imag_sectors
            /\ sector_values' = o.sector_values
            /\ d_sector_values' = o.d_sector_values

\* constellation_calcdist::make
MakeCalcdist ==
    /\ pc = "new"
    /\ \E constell \in PointLists, code \in PreDiffCodes, dim \in 1..MaxDim :
         Install("calcdist",
                 [NoArgs EXCEPT !.constell = constell, !.pre_diff_code = code,
                                !.rotational_symmetry = 1, !.dimensionality = dim],
                 constellation(constell, code, 1, dim))

\* constellation_rect::make
MakeRect ==
    /\ pc = "new"
    /\ \E constell \in SectorPointLists, code \in PreDiffCodes,
          rs \in 1..MaxSectors, is \in 1..MaxSectors, wr \in Widths, wi \in Widths :
         Install("rect",
                 [NoArgs EXCEPT !.constell = constell, !.pre_diff_code = code,
                                !.rotational_symmetry = 1, !.dimensionality = 1,
                                !.real_sectors = rs, !.imag_sectors = is,
                                !.width_real_sectors = wr, !.width_imag_sectors = wi],
                 constellation_rect(constell, code, 1, rs, is, wr, wi))

\* constellation_expl_rect::make
MakeExplRect ==
    /\ pc = "new"
    /\ \E constell \in SectorPointLists, code \in PreDiffCodes,
          rs \in 1..MaxSectors, is \in 1..MaxSectors, wr \in Widths, wi \in Widths :
         \E values \in ExplTables(rs * is, Len(constell)) :
           Install("expl_rect",
                   [NoArgs EXCEPT !.constell = constell, !.pre_diff_code = code,
                                  !.rotational_symmetry = 1, !.dimensionality = 1,
                                  !.real_sectors = rs, !.imag_sectors = is,
                                  !.width_real_sectors = wr, !.width_imag_sectors = wi,
                                  !.sector_values = values],
                   constellation_expl_rect(constell, code, 1, rs, is, wr, wi, values))

\* constellation_psk::make
MakePsk ==
    /\ pc = "new"
    /\ \E constell \in SectorPointLists, code \in PreDiffCodes, n \in SectorCounts :
         Install("psk",
                 [NoArgs EXCEPT !.constell = constell, !.pre_diff_code = code,
                                !.dimensionality = 1, !.n_sectors = n],
                 constellation_psk(constell, code, n))

\* constellation_bpsk::make, _qpsk::make, _dqpsk::make, _8psk::make
MakeBpsk == pc = "new" /\ Install("bpsk", NoArgs, constellation_bpsk)

MakeQpsk == pc = "new" /\ Install("qpsk", NoArgs, constellation_qpsk)

MakeDqpsk == pc = "new" /\ Install("dqpsk", NoArgs, constellation_dqpsk)

Make8psk == pc = "new" /\ Install("8psk", NoArgs, constellation_8psk)

IsRect == variant \in {"rect", "expl_rect"}

\* The geometric centres of the sectors of a rectangular constellation.
SectorCentres ==
    {calc_sector_center(s, n_real_sectors, n_imag_sectors,
                        d_width_real_sectors, d_width_imag_sectors) :
       s \in 0..(n_sectors - 1)}

StoredPoints == {d_constellation[i] : i \in 1..Len(d_constellation)}

\* has_soft_dec_lut()
has_soft_dec_lut == Len(d_soft_dec_lut) > 0

\* The samples a call is made with.  One complex sample: a grid of points in
\* steps of 0.5 with far points, the stored points and the sector centres; for
\* constellation_psk the 48 directions of the unit circle.  Several complex
\* samples: every tuple of stored points and the origin.  The decisions do not
\* read the soft decision table: on an object that has one they are called
\* with a few samples only.
Samples ==
    IF has_soft_dec_lut
    THEN (IF variant = "psk"
          THEN {<<UnitCircle(k, unit)>> : k \in {0, HalfTurn}}
          ELSE {[d \in 1..d_dimensionality |-> p] : p \in StoredPoints})
    ELSE IF variant = "psk"
    THEN {<<UnitCircle(k, unit)>> : k \in (1 - HalfTurn)..HalfTurn}
    ELSE IF d_dimensionality = 1
    THEN {<<p>> : p \in ({h * (unit \div 2) : h \in HalfSteps}
                        \X {h * (unit \div 2) : h \in HalfSteps})
                       \cup StoredPoints
                       \cup (IF IsRect THEN SectorCentres ELSE {})}
    ELSE [1..d_dimensionality -> StoredPoints \cup {<<0, 0>>}]

\* Whether the imaginary part of the sample may also be -0.0.
NegZeros(sample) ==
    IF variant = "psk" /\ sample = <<UnitCircle(HalfTurn, unit)>>
    THEN BOOLEAN ELSE {FALSE}

\* get_sector(sample), dispatched on the dynamic type.
get_sector(sample, negzero) ==
    IF variant = "psk"
    THEN constellation_psk_get_sector(arg(sample[1], negzero, unit), n_sectors)
    ELSE constellation_rect_get_sector(sample[1], n_real_sectors, n_imag_sectors,
                                       d_width_real_sectors, d_width_imag_sectors)

\* constellation_sector::decision_maker: sector_values[get_sector(sample)].  A
\* sector past the end of sector_values reads a stray word.
constellation_sector_decision_maker(sample, negzero) ==
    LET sector == get_sector(sample, negzero)
        inside == sector < Len(sector_values)
    IN  [sector |-> sector, oob |-> ~inside,
         results |-> IF inside THEN {sector_values[sector + 1]} ELSE StrayWords]

Returns(r) == [sector |-> -1, oob |-> FALSE, results |-> {r}]

\* decision_maker(sample), dispatched on the dynamic type.
decision_maker(sample, negzero) ==
    CASE variant = "calcdist" ->
           Returns(get_closest_point(d_constellation, d_dimensionality, d_arity, sample))
      [] variant \in {"rect", "expl_rect", "psk"} ->
           constellation_sector_decision_maker(sample, negzero)
      [] variant = "bpsk" -> Returns(constellation_bpsk_decision_maker(sample[1]))
      [] variant = "qpsk" -> Returns(constellation_qpsk_decision_maker(sample[1]))
      [] variant = "dqpsk" -> Returns(constellation_dqpsk_decision_maker(sample[1]))
      [] variant = "8psk" -> Returns(constellation_8psk_decision_maker(sample[1]))

\* A call of decision_maker.
DecisionMaker ==
    /\ pc = "ready"
    /\ \E sample \in Samples :
         \E negzero \in NegZeros(sample) :
           LET call == decision_maker(sample, negzero)
           IN  \E r \in call.results :
                 last' = [NoCall EXCEPT !.op = "decision_maker",
                                        !.sample = sample,
                                        !.negzero = negzero,
                                        !.sector = call.sector,
                                        !.result = r,
                                        !.oob = call.oob]
    /\ pc' = "returned"
    /\ UNCHANGED <<variant, args, fields, box, lut, gen>>

\* A call of calc_soft_dec.  Where it reads d_pre_diff_code past its end the
\* read finds stray words, or faults.
CalcSoftDec ==
    /\ pc = "ready"
    /\ LET M == Len(d_constellation)
           past == calc_soft_dec_reads_past_end(d_constellation, d_pre_diff_code)
       IN  \E stray \in (IF past THEN [0..(M - 1) -> StrayWords]
                                 ELSE {[i \in 0..(M - 1) |-> 0]}),
              fault \in (IF past THEN BOOLEAN ELSE {FALSE}) :
             /\ pc' = IF fault THEN "crashed" ELSE "returned"
             /\ last' = [NoCall EXCEPT
                           !.op = "calc_soft_dec",
                           !.oob = past,
                           !.tmp = IF fault THEN <<>>
                                   ELSE calc_soft_dec(d_constellation,
                                                      d_pre_diff_code, stray)]
    /\ UNCHANGED <<variant, args, fields, box, lut, gen>>

\* The samples soft_decision_maker is called with: the stored points while
\* there is no table; with a table, the corners, the mid points and the
\* centre of the bounding box, and points a quarter of it beyond each edge.
LutSamples ==
    IF ~has_soft_dec_lut THEN StoredPoints
    ELSE {<<d_re_min + (i * (d_re_max - d_re_min)) \div 4,
            d_im_min + (j * (d_im_max - d_im_min)) \div 4>> :
            i, j \in {-1, 0, 2, 4, 5}}

\* The samples decision_maker_pe is called with.
PeSamples ==
    IF variant # "psk" /\ d_dimensionality = 1
    THEN {<<p>> : p \in StoredPoints} ELSE Samples

\* calc_soft_dec at a point, as a table entry.
SoftDecAt(x, y) == <<0, x, y>>

\* gen_soft_dec_lut(precision, npwr) up to its loops: max_min_axes, the scale,
\* the steps, clear().
GenSoftDecLut ==
    /\ pc = "ready"
    /\ \E precision \in GenPrecisions :
         LET b == max_min_axes(d_constellation)
             scale == powf2(precision)
         IN  /\ d_re_min' = b.re_min
             /\ d_re_max' = b.re_max
             /\ d_im_min' = b.im_min
             /\ d_im_max' = b.im_max
             /\ d_lut_scale' = scale
             /\ d_soft_dec_lut' = clear(d_soft_dec_lut)
             /\ gen' = [precision |-> precision, at |-> "outer", x |-> 0,
                        y |-> GridDen * b.im_min,
                        xstep |-> gen_soft_dec_lut_step(b.re_min, b.re_max, scale),
                        ystep |-> gen_soft_dec_lut_step(b.im_min, b.im_max, scale)]
             /\ last' = [NoCall EXCEPT !.op = "gen_soft_dec_lut",
                                       !.precision = precision]
    /\ pc' = "gen"
    /\ UNCHANGED <<variant, args, fields, d_lut_precision>>

\* One test of a loop of gen_soft_dec_lut and what follows it: the body of the
\* inner loop (a calc_soft_dec, which may read d_pre_diff_code past its end,
\* and a push_back), the end of a row, or the end of the call.
GenStep ==
    /\ pc = "gen"
    /\ LET outer == gen.at = "outer"
           row == outer /\ gen.y < GridDen * d_im_max
           done == outer /\ ~row
           cell == ~outer /\ gen.x < GridDen * d_re_max
           past == cell /\ calc_soft_dec_reads_past_end(d_constellation, d_pre_diff_code)
       IN  \E fault \in (IF past THEN BOOLEAN ELSE {FALSE}) :
             /\ pc' = IF fault THEN "crashed" ELSE IF done THEN "returned" ELSE "gen"
             /\ gen' = IF fault \/ done THEN NoGen
                       ELSE IF row THEN [gen EXCEPT !.at = "inner", !.x = GridDen * d_re_min]
                       ELSE IF cell THEN [gen EXCEPT !.x = FAdd(gen.x, gen.xstep)]
                       ELSE [gen EXCEPT !.at = "outer", !.x = 0,
                                        !.y = FAdd(gen.y, gen.ystep)]
             /\ d_soft_dec_lut' = IF cell /\ ~fault
                                  THEN push_back(d_soft_dec_lut, SoftDecAt(gen.x, gen.y))
                                  ELSE d_soft_dec_lut
             /\ d_lut_precision' = IF done THEN gen.precision ELSE d_lut_precision
             /\ last' = [last EXCEPT !.oob = last.oob \/ past]
    /\ UNCHANGED <<variant, args, fields, box, d_lut_scale>>

\* set_soft_dec_lut(soft_dec_lut, precision)
SetSoftDecLut ==
    /\ pc = "ready"
    /\ \E t \in SetTables :
         LET b == max_min_axes(d_constellation)
             table == [i \in 1..t[1] |-> <<1, i - 1, t[1]>>]
         IN  /\ d_re_min' = b.re_min
             /\ d_re_max' = b.re_max
             /\ d_im_min' = b.im_min
             /\ d_im_max' = b.im_max
             /\ d_soft_dec_lut' = table
             /\ d_lut_precision' = t[2]
             /\ d_lut_scale' = powf2(t[2])
             /\ last' = [NoCall EXCEPT !.op = "set_soft_dec_lut",
                                       !.precision = t[2], !.table = table]
    /\ pc' = "returned"
    /\ UNCHANGED <<variant, args, fields, gen>>

\* The ways soft_decision_maker(sample) may end.  With a table: the range
\* error, an entry of the table, or a read past its end, which finds a stray
\* entry or faults.  Without one: calc_soft_dec(sample).
soft_decision_maker(sample) ==
    IF has_soft_dec_lut
    THEN LET b == [re_min |-> d_re_min, re_max |-> d_re_max,
                   im_min |-> d_im_min, im_max |-> d_im_max]
         IN  UNION {
               LET thrown == soft_decision_maker_throws(index, d_lut_scale)
                   read == soft_decision_maker_reads(index, d_lut_scale)
                   inside == read >= 0 /\ read < Len(d_soft_dec_lut)
                   call == [NoCall EXCEPT !.op = "soft_decision_maker",
                                          !.sample = <<sample>>, !.path = "table",
                                          !.index = index, !.thrown = thrown]
               IN  IF thrown THEN {[pc |-> "returned", last |-> call]}
                   ELSE IF inside
                   THEN {[pc |-> "returned",
                          last |-> [call EXCEPT !.read = read,
                                                !.entry = d_soft_dec_lut[read + 1]]]}
                   ELSE {[pc |-> "returned",
                          last |-> [call EXCEPT !.read = read, !.oob = TRUE,
                                                !.entry = StrayEntry]],
                         [pc |-> "crashed",
                          last |-> [call EXCEPT !.read = read, !.oob = TRUE]]}
               : index \in soft_decision_maker_indexes(sample, b, d_lut_scale, unit)}
    ELSE LET past == calc_soft_dec_reads_past_end(d_constellation, d_pre_diff_code)
             call == [NoCall EXCEPT !.op = "soft_decision_maker",
                                    !.sample = <<sample>>, !.path = "direct",
                                    !.oob = past]
         IN  {[pc |-> "returned",
               last |-> [call EXCEPT !.entry = SoftDecAt(GridDen * sample[1],
                                                         GridDen * sample[2])]]}
             \cup (IF past THEN {[pc |-> "crashed", last |-> call]} ELSE {})

\* A call of soft_decision_maker.
SoftDecisionMaker ==
    /\ pc = "ready"
    /\ \E sample \in LutSamples :
         \E end \in soft_decision_maker(sample) :
           pc' = end.pc /\ last' = end.last
    /\ UNCHANGED <<variant, args, fields, box, lut, gen>>

\* decision_maker_pe(sample, phase_error): the decision, and the positions in
\* d_constellation of the reference points of the phase error sum.
decision_maker_pe(index, D) ==
    [d \in 1..D |-> index + (d - 1)]

\* A call of decision_maker_pe.
DecisionMakerPe ==
    /\ pc = "ready"
    /\ \E sample \in PeSamples :
         \E negzero \in NegZeros(sample) :
           LET call == decision_maker(sample, negzero)
           IN  \E r \in call.results :
                 LET refs == decision_maker_pe(r, d_dimensionality)
                 IN  last' = [NoCall EXCEPT
                                !.op = "decision_maker_pe",
                                !.sample = sample,
                                !.negzero = negzero,
                                !.sector = call.sector,
                                !.result = r,
                                !.refs = refs,
                                !.oob = call.oob
                                        \/ \E d \in 1..d_dimensionality :
                                             refs[d] >= Len(d_constellation)]
    /\ pc' = "returned"
    /\ UNCHANGED <<variant, args, fields, box, lut, gen>>

\* The samples calc_metric is called with: each stored point in every
\* dimension.
MetricSamples == {[d \in 1..d_dimensionality |-> p] : p \in StoredPoints}

\* A call of map_to_points (as map_to_points_v, which returns the points).
MapToPoints ==
    /\ pc = "ready"
    /\ \E value \in 0..(d_arity - 1) :
         last' = [NoCall EXCEPT
                    !.op = "map_to_points",
                    !.result = value,
                    !.points = map_to_points(d_constellation, d_dimensionality, value)]
    /\ pc' = "returned"
    /\ UNCHANGED <<variant, args, fields, box, lut, gen>>

\* An s_points that moves the vector out of the object.
SPoints_moved_out ==
    /\ pc = "ready"
    /\ last' = [NoCall EXCEPT !.op = "s_points",
                              !.thrown = d_dimensionality # 1,
                              !.points = IF d_dimensionality # 1 THEN <<>>
                                         ELSE d_constellation]
    /\ pc' = "returned"
    /\ d_constellation' = IF d_dimensionality # 1 THEN d_constellation ELSE <<>>
    /\ UNCHANGED <<variant, args, unit, d_pre_diff_code, d_apply_pre_diff_code,
                   d_rotational_symmetry, d_dimensionality, d_arity,
                   d_scalefactor, n_sectors, n_real_sectors, n_imag_sectors,
                   d_width_real_sectors, d_width_imag_sectors, sector_values,
                   d_sector_values, box, lut, gen>>

\* s_points(): throws unless the dimensionality is 1, else a copy of the
\* points.
SPoints ==
    /\ pc = "ready"
    /\ last' = [NoCall EXCEPT !.op = "s_points",
                              !.thrown = d_dimensionality # 1,
                              !.points = IF d_dimensionality # 1 THEN <<>>
                                         ELSE d_constellation]
    /\ pc' = "returned"
    /\ UNCHANGED <<variant, args, fields, box, lut, gen>>

\* v_points(): the points of every symbol.
VPoints ==
    /\ pc = "ready"
    /\ last' = [NoCall EXCEPT
                  !.op = "v_points",
                  !.points = [p \in 1..d_arity |->
                                [d \in 1..d_dimensionality |->
                                   d_constellation[(p - 1) * d_dimensionality + (d - 1) + 1]]]]
    /\ pc' = "returned"
    /\ UNCHANGED <<variant, args, fields, box, lut, gen>>

\* calc_euclidean_metric(sample, metric)
calc_euclidean_metric(cst, D, arity, sample) ==
    [o \in 1..arity |-> get_distance(cst, D, o - 1, sample)]

\* The first loop of calc_hard_symbol_metric from symbol o on.
RECURSIVE HardSymbolFrom(_, _, _, _, _, _, _)
HardSymbolFrom(cst, D, arity, sample, o, minmi, minm) ==
    IF o >= arity THEN minmi
    ELSE LET dist == get_distance(cst, D, o, sample)
         IN  IF dist < minm
             THEN HardSymbolFrom(cst, D, arity, sample, o + 1, o, dist)
             ELSE HardSymbolFrom(cst, D, arity, sample, o + 1, minmi, minm)

\* calc_hard_symbol_metric(sample, metric): 0 for the nearest symbol, 1 for
\* the others (FLT_MAX is above every distance).
calc_hard_symbol_metric(cst, D, arity, sample) ==
    LET minmi == HardSymbolFrom(cst, D, arity, sample, 0, 0, Huge)
    IN  [o \in 1..arity |-> IF o - 1 = minmi THEN 0 ELSE 1]

\* A call of calc_metric(sample, metric, type).
CalcMetric ==
    /\ pc = "ready"
    /\ \E sample \in MetricSamples, type \in MetricTypes :
         last' = [NoCall EXCEPT
                    !.op = "calc_metric",
                    !.sample = sample,
                    !.type = type,
                    !.thrown = type \notin {"TRELLIS_EUCLIDEAN", "TRELLIS_HARD_SYMBOL"},
                    !.metric =
                       CASE type = "TRELLIS_EUCLIDEAN" ->
                              calc_euclidean_metric(d_constellation, d_dimensionality,
                                                    d_arity, sample)
                         [] type = "TRELLIS_HARD_SYMBOL" ->
                              calc_hard_symbol_metric(d_constellation, d_dimensionality,
                                                      d_arity, sample)
                         [] OTHER -> <<>>]
    /\ pc' = "returned"
    /\ UNCHANGED <<variant, args, fields, box, lut, gen>>

\* The caller takes the result of the call; the object is idle again.
Return ==
    /\ pc = "returned"
    /\ pc' = "ready"
    /\ last' = NoCall
    /\ UNCHANGED <<variant, args, fields, box, lut, gen>>

Next ==
    \/ MakeCalcdist
    \/ MakeRect
    \/ MakeExplRect
    \/ MakePsk
    \/ MakeBpsk
    \/ MakeQpsk
    \/ MakeDqpsk
    \/ Make8psk
    \/ DecisionMaker
    \/ CalcSoftDec
    \/ GenSoftDecLut
    \/ GenStep
    \/ SetSoftDecLut
    \/ SoftDecisionMaker
    \/ DecisionMakerPe
    \/ MapToPoints
    \/ SPoints
    \/ VPoints
    \/ CalcMetric
    \/ Return

Spec == Init /\ [][Next]_vars

(***************************************************************************)
(* The claims.                                                             *)
(***************************************************************************)
Decided == pc = "returned" /\ last.op = "decision_maker"

Built == pc \in {"ready", "returned", "crashed"}

\* get_distance of the object from the sample of the last call.
DistanceTo(j) ==
    get_distance(d_constellation, d_dimensionality, j, last.sample)

StoredTuple(i) == map_to_points(d_constellation, d_dimensionality, i)

\* C1: the decision of constellation_calcdist is an index below the arity, no
\* symbol is closer to the sample than the symbol it names, and every symbol
\* of a lower index is farther away.
C1_NearestLowestIndex ==
    (Decided /\ variant = "calcdist") =>
        /\ last.result \in 0..(d_arity - 1)
        /\ \A j \in 0..(d_arity - 1) : DistanceTo(last.result) <= DistanceTo(j)
        /\ \A j \in 0..(last.result - 1) : DistanceTo(j) > DistanceTo(last.result)

\* A decision on a sample that is as far from a later symbol as from the one
\* returned.
C1_Witness ==
    /\ Decided /\ variant = "calcdist"
    /\ \E j \in (last.result + 1)..(d_arity - 1) :
         DistanceTo(j) = DistanceTo(last.result)

\* C2: bpsk, qpsk, dqpsk and 8psk decide the stored point of symbol i as i.
C2_ClosedFormSelfDecision ==
    (Decided /\ variant \in {"bpsk", "qpsk", "dqpsk", "8psk"}) =>
        \A i \in 0..(d_arity - 1) :
            last.sample = StoredTuple(i) => last.result = i

\* 8psk has decided the stored point of symbol 6.
C2_Witness ==
    /\ Decided /\ variant = "8psk"
    /\ last.sample = StoredTuple(6)
    /\ last.result = 6

\* C3 as claimed: constellation_calcdist decides the stored points of symbol i
\* as i, whatever the point list.
C3_SelfDecisionAnyList ==
    (Decided /\ variant = "calcdist") =>
        \A i \in 0..(d_arity - 1) :
            last.sample = StoredTuple(i) => last.result = i

\* C3 as amended: constellation_calcdist decides the stored points of symbol i
\* as the lowest index whose stored points are those of i, which is i when no
\* symbol of a lower index has the same stored points.
C3_SelfDecisionLowestEqual ==
    (Decided /\ variant = "calcdist") =>
        \A i \in 0..(d_arity - 1) :
            last.sample = StoredTuple(i) =>
                /\ last.result <= i
                /\ StoredTuple(last.result) = StoredTuple(i)
                /\ \A j \in 0..(last.result - 1) : StoredTuple(j) # StoredTuple(i)

\* A two-dimensional constellation has decided the stored points of its
\* symbol 1, which shares its first point with symbol 0, as 1.
C3_Witness ==
    /\ Decided /\ variant = "calcdist"
    /\ d_dimensionality = 2 /\ d_arity = 2
    /\ StoredTuple(0)[1] = StoredTuple(1)[1]
    /\ last.sample = StoredTuple(1)
    /\ last.result = 1

\* C4: constellation_expl_rect decides a sample as the entry of the table its
\* caller supplied for the sample's sector.
C4_SuppliedTableDecides ==
    (Decided /\ variant = "expl_rect") =>
        last.result = d_sector_values[get_sector(last.sample, last.negzero) + 1]

\* The centre of sector s: of the rectangle, or on the unit circle.
SectorCentre(s) ==
    IF variant = "psk"
    THEN UnitCircle((s * M_TWOPI) \div n_sectors, unit)
    ELSE calc_sector_center(s, n_real_sectors, n_imag_sectors,
                            d_width_real_sectors, d_width_imag_sectors)

\* C5: constellation_rect and constellation_psk find the centre of sector s
\* in sector s, and decide it as get_closest_point does.
C5_CentreDecision ==
    (Decided /\ variant \in {"rect", "psk"}) =>
        \A s \in 0..(n_sectors - 1) :
            last.sample = <<SectorCentre(s)>> =>
                /\ last.sector = s
                /\ last.result = get_closest_point(d_constellation, d_dimensionality,
                                                   d_arity, last.sample)

\* A rectangular constellation of two by one sectors has decided the centre
\* of its sector 1.
C5_Witness ==
    /\ Decided /\ variant = "rect"
    /\ n_real_sectors = 2 /\ n_imag_sectors = 1
    /\ last.sample = <<SectorCentre(1)>>
    /\ last.sector = 1

\* The sector s of n sectors of width w is the one x lies in: sector 0 below
\* the grid, the last sector above it, and within the grid the sector whose
\* bin holds x.
InAxisSector(s, x, n, w) ==
    /\ s \in 0..(n - 1)
    /\ 2 * x < -(n * w) => s = 0
    /\ 2 * x >= n * w => s = n - 1
    /\ (2 * x >= -(n * w) /\ 2 * x < n * w) =>
           (2 * s * w <= 2 * x + n * w /\ 2 * x + n * w < 2 * (s + 1) * w)

C7_PskSectorInRange ==
    (Decided /\ variant = "psk") =>
        LET phase == arg(last.sample[1], last.negzero, unit)
        IN  /\ last.sector =
                 Floor(2 * phase * n_sectors + M_TWOPI, 2 * M_TWOPI) % n_sectors
            /\ last.sector \in 0..(n_sectors - 1)
            /\ ~last.oob

\* C8: with a pre-diff code that is not empty and a point list whose size is
\* a multiple of the dimensionality, construction succeeds exactly if the
\* code is as long as the arity, points.size()/D.
C8_CodeLengthIsArity ==
    (pc # "new" /\ args.constell # <<>> /\ args.pre_diff_code # <<>>
     /\ Len(args.constell) % args.dimensionality = 0) =>
        (Built <=> Len(args.pre_diff_code)
                     = Len(args.constell) \div args.dimensionality)

\* C9: construction from a point list whose size is no multiple of the
\* dimensionality fails, and an object that was built has
\* arity * dimensionality = points.size() from then on.
C9_ArityTimesDimensionality ==
    /\ (pc # "new" /\ args.constell # <<>>
        /\ Len(args.constell) % args.dimensionality # 0) => pc = "failed"
    /\ Built =>
         /\ d_arity * d_dimensionality = Len(d_constellation)
         /\ args.constell # <<>> => Len(d_constellation) = Len(args.constell)

\* Construction from three points of dimensionality 2 and no pre-diff code
\* has failed.
C9_Witness ==
    /\ pc = "failed"
    /\ args.pre_diff_code = <<>>
    /\ Len(args.constell) = 3 /\ args.dimensionality = 2

\* C10: with an empty pre-diff code calc_soft_dec returns, having read
\* nothing past the end of d_pre_diff_code and having added the term of each
\* symbol i to the sum of bit j of i.
C10_EmptyCodeFallsBackToIndex ==
    (last.op = "calc_soft_dec" /\ d_pre_diff_code = <<>>) =>
        /\ pc = "returned"
        /\ ~last.oob
        /\ \A n \in DOMAIN last.tmp :
             last.tmp[n] = {i \in 0..(Len(d_constellation) - 1) :
                              Bit(i, n \div 2) = n % 2}

\* A call of soft_decision_maker on an object that has a table has ended.
LookedUp ==
    /\ pc \in {"returned", "crashed"}
    /\ last.op = "soft_decision_maker"
    /\ last.path = "table"

\* C11: with a table present soft_decision_maker raises the range error or
\* reads an element of the table that exists, the last one when the flat index
\* is past the last valid index.
C11_LookupWithinTable ==
    LookedUp =>
        \/ last.thrown
        \/ /\ last.read \in 0..(Len(d_soft_dec_lut) - 1)
           /\ last.index > Len(d_soft_dec_lut) - 1 => last.read = Len(d_soft_dec_lut) - 1

\* gen_soft_dec_lut has returned.
Generated == pc = "returned" /\ last.op = "gen_soft_dec_lut"

\* The table holds what gen_soft_dec_lut built.
TableBuilt == has_soft_dec_lut /\ d_soft_dec_lut[1][1] = 0

\* C12: after gen_soft_dec_lut on a bounding box of positive width and height
\* the table holds gridSize * gridSize entries, gridSize = 2^precision, and
\* the grid point of the two max edges is one of them.
C12_TableIsFullGrid ==
    (Generated /\ d_lut_precision >= 0
               /\ d_re_max > d_re_min /\ d_im_max > d_im_min) =>
        /\ Len(d_soft_dec_lut) = (2^d_lut_precision) * (2^d_lut_precision)
        /\ \E n \in 1..Len(d_soft_dec_lut) :
             d_soft_dec_lut[n] = SoftDecAt(GridDen * d_re_max, GridDen * d_im_max)

InsideBox(sample) ==
    /\ sample[1] >= d_re_min /\ sample[1] <= d_re_max
    /\ sample[2] >= d_im_min /\ sample[2] <= d_im_max

\* C13: on a table built by gen_soft_dec_lut, the lookup of a sample inside
\* the bounding box returns the entry built at a grid point within one grid
\* step of the sample on both axes.
C13_LookupWithinOneStep ==
    (LookedUp /\ TableBuilt /\ InsideBox(last.sample[1])) =>
        /\ pc = "returned" /\ ~last.thrown /\ ~last.oob
        /\ fabsf(last.entry[2] - GridDen * last.sample[1][1])
             <= fabsf(gen_soft_dec_lut_step(d_re_min, d_re_max, d_lut_scale))
        /\ fabsf(last.entry[3] - GridDen * last.sample[1][2])
             <= fabsf(gen_soft_dec_lut_step(d_im_min, d_im_max, d_lut_scale))

\* C14: with a table present soft_decision_maker throws the range error
\* exactly when the flat index it computed is negative, and a lookup that
\* throws leaves the table, the precision, the scale and the bounding box as
\* they were.
C14_RangeErrorIffNegative ==
    [][/\ LookedUp' => (last'.thrown <=> last'.index < 0)
       /\ (LookedUp' /\ last'.thrown) => UNCHANGED <<box, lut>>]_vars

\* A lookup threw the range error.
C14_Witness == LookedUp /\ last.thrown /\ last.index < 0 /\ has_soft_dec_lut

\* C15: a new object has no table; the table, the precision and the scale
\* change only in gen_soft_dec_lut and set_soft_dec_lut (not in the decisions,
\* calc_soft_dec or soft_decision_maker, with or without a table); and each
\* of the two replaces the table: set_soft_dec_lut leaves the table it was
\* handed, gen_soft_dec_lut starts from an empty one.
C15_TableChangesOnlyInGenAndSet ==
    [][/\ pc = "new" => ~has_soft_dec_lut'
       /\ lut' # lut => last'.op \in {"gen_soft_dec_lut", "set_soft_dec_lut"}
       /\ (pc = "ready" /\ last'.op = "set_soft_dec_lut") =>
              d_soft_dec_lut' = last'.table
       /\ (pc = "ready" /\ last'.op = "gen_soft_dec_lut") =>
              d_soft_dec_lut' = <<>>]_vars

\* gen_soft_dec_lut(1, npwr) has emptied the table of an object that held a
\* table of precision 2.
C15_Witness ==
    /\ pc = "gen" /\ gen.precision = 1
    /\ d_lut_precision = 2
    /\ d_soft_dec_lut = <<>>

PhaseErrorTaken == pc = "returned" /\ last.op = "decision_maker_pe"

\* C16: decision_maker_pe returns the index of decision_maker, and the
\* reference point of dimension d is the d-th stored point of that symbol, at
\* position index * D + d.
C16_ReferenceIsStoredPointOfSymbol ==
    PhaseErrorTaken =>
        /\ last.result \in decision_maker(last.sample, last.negzero).results
        /\ \A d \in 1..d_dimensionality :
             last.refs[d] = last.result * d_dimensionality + (d - 1)

\* C17: once the object is built no call changes the stored points, the
\* dimensionality, the arity, the pre-diff code or the scale factor.
C17_PointsAndCodeAreFrozen ==
    [][pc # "new" =>
         UNCHANGED <<d_constellation, d_dimensionality, d_arity,
                     d_pre_diff_code, d_scalefactor>>]_vars

\* s_points has returned the points of an object on which a table was
\* installed before, and the points are the scaled arguments still.
C17_Witness ==
    /\ pc = "returned" /\ last.op = "s_points" /\ ~last.thrown
    /\ has_soft_dec_lut
    /\ variant = "calcdist"
    /\ d_constellation = constellation(args.constell, args.pre_diff_code,
                                       args.rotational_symmetry,
                                       args.dimensionality).d_constellation

ClosedForm == variant \in {"bpsk", "qpsk", "dqpsk", "8psk"}

\* C18: in every constructed object the magnitudes of the stored points sum
\* to arity times 1.0, the scale factor is arity over the summed magnitude of
\* the input points, and each stored point is its input point times the scale
\* factor.  The fixed constellations hold rounded coordinates and are allowed
\* one step of 1/Res per point.
C18_MeanMagnitudeIsOne ==
    Built =>
        IF ClosedForm
        THEN /\ fabsf(SummedMag(d_constellation) - d_arity * unit) <= d_arity
             /\ fabsf(d_scalefactor * SummedMag(d_constellation) - d_arity * unit * Res)
                  <= d_arity * Res
        ELSE /\ SummedMag(d_constellation) = d_arity * unit
             /\ d_scalefactor * SummedMag(args.constell) = d_arity * unit
             /\ \A i \in 1..Len(d_constellation) :
                  d_constellation[i] = <<args.constell[i][1] * d_scalefactor,
                                         args.constell[i][2] * d_scalefactor>>

\* The squared distance of every stored point from the sample of the last call.
UniqueNearest ==
    \E i \in 0..(d_arity - 1) :
        \A j \in 0..(d_arity - 1) : j # i => DistanceTo(i) < DistanceTo(j)

\* C20: a closed-form decision on a sample that has one nearest stored point
\* is the decision of get_closest_point.
C20_ClosedFormIsNearestPoint ==
    (Decided /\ ClosedForm /\ UniqueNearest) =>
        last.result = get_closest_point(d_constellation, d_dimensionality,
                                        d_arity, last.sample)

\* A closed-form decision on a sample that is no stored point and has one
\* nearest stored point, which is not symbol 0.
C20_Witness ==
    /\ Decided /\ ClosedForm /\ UniqueNearest
    /\ last.sample[1] \notin StoredPoints
    /\ last.result = get_closest_point(d_constellation, d_dimensionality,
                                       d_arity, last.sample)
    /\ last.result > 0

\* C19: gen_soft_dec_lut ends after a bounded number of grid evaluations.  Its
\* loops add a constant step to x and to y and end once the coordinate is no
\* longer below the max edge, so they end exactly if every pass of the inner
\* loop leaves x larger than it was, and every row leaves y larger.
C19_EveryPassAdvances ==
    [][(pc = "gen" /\ pc' = "gen") =>
         /\ (gen.at = "inner" /\ gen'.at = "inner") => gen'.x > gen.x
         /\ (gen.at = "inner" /\ gen'.at = "outer") => gen'.y > gen.y]_vars

\* C21: in every constructed object the flag d_apply_pre_diff_code is set
\* exactly if the stored pre-diff code is not empty.
C21_ApplyFlagIffCode ==
    Built => (d_apply_pre_diff_code <=> Len(d_pre_diff_code) > 0)

\* C22: once gen_soft_dec_lut has returned for a precision >= 0 the object
\* has a table, and a later soft_decision_maker takes the table path.
\* d_lut_scale is 0 until a gen_soft_dec_lut or set_soft_dec_lut call and never
\* after, and every table handed to set_soft_dec_lut has entries.
C22_GeneratedTableIsUsed ==
    /\ (Generated /\ d_lut_precision >= 0) => has_soft_dec_lut
    /\ (/\ pc \in {"returned", "crashed"}
        /\ last.op = "soft_decision_maker"
        /\ d_lut_scale # <<0, 1>>) => last.path = "table"

====
